---- MODULE Spec2Model ----
(***************************************************************************)
(* Similarity graph and union-find communities of                          *)
(* src/visualizations/visualize_graphs.py:                                 *)
(*   calculate_jaccard_similarity          (lines 108-114)                 *)
(*   visualize_user_similarity_graph       (lines 116-140, the edge loop)  *)
(*   visualize_taste_communities           (lines 264-317)                 *)
(*   UnionFind (make_set, find, union)     (lines 272-289)                 *)
(*                                                                         *)
(* Three specifications:                                                   *)
(*   Spec         the run of visualize_taste_communities, one loop         *)
(*                iteration per step;                                      *)
(*   SpecUF       a UnionFind object under arbitrary calls of a client;    *)
(*   SpecJaccard  calculate_jaccard_similarity on arbitrary sets.          *)
(*                                                                         *)
(* A Python float that is the quotient of two small integers is modelled   *)
(* as the reduced fraction <<num, den>>, den > 0: two such floats are      *)
(* equal, or ordered, exactly as the fractions are.                        *)
(***************************************************************************)
EXTENDS Integers, Sequences, FiniteSets, TLC

VARIABLES
  user_liked,      \* dict user -> set of liked songs            (line 295)
  user_ids,        \* list(user_liked.keys()), insertion order   (line 299)
  min_similarity,  \* the threshold argument                     (line 264)
  pc,              \* position in visualize_taste_communities
  i, j,            \* loop indices into user_ids
  parent,          \* UnionFind.parent                           (line 274)
  G_nodes,         \* nodes of G                                 (line 303)
  G_edges,         \* edges of G in the order of add_edge        (line 310)
  communities,     \* dict root -> list of members               (line 314)
  lastOp,          \* the last call made on the UnionFind object and its outcome
  prev,            \* UnionFind.parent as it was before that call
  grouped,         \* whether the grouping loop (313-317) has run on the object
  set1, set2,      \* arguments of calculate_jaccard_similarity
  similarity       \* its return value

vars == <<user_liked, user_ids, min_similarity, pc, i, j, parent, G_nodes,
          G_edges, communities, lastOp, prev, grouped, set1, set2, similarity>>

pipeVars == <<user_liked, user_ids, min_similarity, pc, i, j, G_nodes,
              G_edges, communities>>
ufVars == <<lastOp, prev, grouped>>
jacVars == <<set1, set2, similarity>>

(***************************************************************************)
(* Bounds.                                                                 *)
(***************************************************************************)
NumUsers == 3
NumSongs == 2
NumEntities == 4
NumItems == 3

Users == 1..NumUsers
Songs == 1..NumSongs
Entities == 1..NumEntities
Items == 1..NumItems

\* The empty dict.
Empty == << >>

\* No float returned yet.
NoResult == << >>

(***************************************************************************)
(* Floats as reduced fractions.                                            *)
(***************************************************************************)
RECURSIVE Gcd(_, _)
Gcd(a, b) == IF b = 0 THEN a ELSE Gcd(b, a % b)

Abs(n) == IF n < 0 THEN -n ELSE n

Div(n, d) == LET g == Gcd(Abs(n), d) IN <<IF n < 0 THEN -(Abs(n) \div g) ELSE n \div g, d \div g>>

Zero == <<0, 1>>
One == <<1, 1>>

Geq(a, b) == a[1] * b[2] >= b[1] * a[2]

\* Mutant: the denominator is len(set1) + len(set2), not the size of the union.
jaccard_sum_of_sizes(s1, s2) ==
  IF Cardinality(s1) = 0 /\ Cardinality(s2) = 0
  THEN Zero
  ELSE Div(Cardinality(s1 \cap s2), Cardinality(s1) + Cardinality(s2))

(***************************************************************************)
(* calculate_jaccard_similarity, lines 108-114.                            *)
(***************************************************************************)
calculate_jaccard_similarity(s1, s2) ==
  IF Cardinality(s1) = 0 /\ Cardinality(s2) = 0
  THEN Zero
  ELSE LET intersection == Cardinality(s1 \cap s2)
           union_ == Cardinality(s1 \cup s2)
       IN IF union_ > 0 THEN Div(intersection, union_) ELSE Zero

(***************************************************************************)
(* The thresholds tried: the default 0.3 of line 264 (the default 0.2 of   *)
(* line 116 accepts the same pairs when a union of liked sets has fewer    *)
(* than five songs), 0.5 and 1.0, which the similarity of some pair        *)
(* equals, and one value on each side outside [0, 1].                      *)
(***************************************************************************)
Thresholds == { <<-1, 2>>, <<3, 10>>, <<1, 2>>, <<1, 1>>, <<3, 2>> }

\* Mutant: similarity > min_similarity.
Accepted_strict(sim, threshold) == ~Geq(threshold, sim)

\* Mutant: the threshold is clamped to [0, 1] before the comparison.
Accepted_clamped(sim, threshold) ==
  Geq(sim, IF threshold[1] < 0 THEN Zero ELSE IF threshold[1] > threshold[2] THEN One ELSE threshold)

(***************************************************************************)
(* similarity >= min_similarity, lines 138 and 309.                        *)
(***************************************************************************)
Accepted(sim, threshold) == Geq(sim, threshold)

(***************************************************************************)
(* UnionFind, lines 272-289.  parent is a function whose domain is the set *)
(* of registered entities, which are positive integers.  A call returns    *)
(* the new parent mapping, the value returned (0 when it returns nothing)  *)
(* and the exception raised ("None" when none).                            *)
(***************************************************************************)
\* Mutant: self.parent[x] = x without the test "x not in self.parent".
make_set_unconditional(p, x) ==
  IF x \notin DOMAIN p THEN p @@ (x :> x) ELSE [p EXCEPT ![x] = x]

make_set(p, x) ==
  IF x \notin DOMAIN p THEN p @@ (x :> x) ELSE p

\* Mutant: the root is found and returned, no parent entry is re-pointed.
RECURSIVE find_no_compression(_, _)
find_no_compression(p, x) ==
  IF x \notin DOMAIN p
  THEN [parent |-> p, ret |-> 0, err |-> "KeyError"]
  ELSE IF p[x] # x
       THEN [parent |-> p, ret |-> find_no_compression(p, p[x]).ret, err |-> "None"]
       ELSE [parent |-> p, ret |-> p[x], err |-> "None"]

\* Mutant: parent is a dict that registers a missing key as its own root
\* (self.parent.setdefault(x, x)) instead of raising.
RECURSIVE find_registering(_, _)
find_registering(p, x) ==
  IF x \notin DOMAIN p
  THEN [parent |-> p @@ (x :> x), ret |-> x, err |-> "None"]
  ELSE IF p[x] # x
       THEN LET r == find_registering(p, p[x])
                q == [r.parent EXCEPT ![x] = r.ret]
            IN [parent |-> q, ret |-> q[x], err |-> "None"]
       ELSE [parent |-> p, ret |-> p[x], err |-> "None"]

RECURSIVE find(_, _)
find(p, x) ==
  IF x \notin DOMAIN p
  THEN [parent |-> p, ret |-> 0, err |-> "KeyError"]
  ELSE IF p[x] # x
       THEN LET r == find(p, p[x])
                q == [r.parent EXCEPT ![x] = r.ret]
            IN [parent |-> q, ret |-> q[x], err |-> "None"]
       ELSE [parent |-> p, ret |-> p[x], err |-> "None"]

\* Mutant: the roots are not looked up: "if x != y: self.parent[x] = y".
union_without_roots(p, x, y) ==
  IF x \notin DOMAIN p \/ y \notin DOMAIN p
  THEN [parent |-> p, err |-> "KeyError"]
  ELSE IF x # y
       THEN [parent |-> [p EXCEPT ![x] = y], err |-> "None"]
       ELSE [parent |-> p, err |-> "None"]

\* Mutant: "self.parent[x] = root_y", x itself re-pointed instead of its root.
union_links_x(p, x, y) ==
  LET fx == find(p, x) IN
  IF fx.err # "None" THEN [parent |-> fx.parent, err |-> fx.err]
  ELSE LET fy == find(fx.parent, y) IN
       IF fy.err # "None" THEN [parent |-> fy.parent, err |-> fy.err]
       ELSE IF fx.ret # fy.ret
            THEN [parent |-> [fy.parent EXCEPT ![x] = fy.ret], err |-> "None"]
            ELSE [parent |-> fy.parent, err |-> "None"]

\* Mutant: "self.parent[root_y] = root_x", the link made the other way.
union_reversed(p, x, y) ==
  LET fx == find(p, x) IN
  IF fx.err # "None" THEN [parent |-> fx.parent, err |-> fx.err]
  ELSE LET fy == find(fx.parent, y) IN
       IF fy.err # "None" THEN [parent |-> fy.parent, err |-> fy.err]
       ELSE IF fx.ret # fy.ret
            THEN [parent |-> [fy.parent EXCEPT ![fy.ret] = fx.ret], err |-> "None"]
            ELSE [parent |-> fy.parent, err |-> "None"]

union(p, x, y) ==
  LET fx == find(p, x) IN
  IF fx.err # "None" THEN [parent |-> fx.parent, err |-> fx.err]
  ELSE LET fy == find(fx.parent, y) IN
       IF fy.err # "None" THEN [parent |-> fy.parent, err |-> fy.err]
       ELSE LET root_x == fx.ret
                root_y == fy.ret
            IN IF root_x # root_y
               THEN [parent |-> [fy.parent EXCEPT ![root_x] = root_y], err |-> "None"]
               ELSE [parent |-> fy.parent, err |-> "None"]

(***************************************************************************)
(* The edge loop shared by visualize_user_similarity_graph (lines 135-140) *)
(* and visualize_taste_communities (lines 306-311):                        *)
(*   for i, user1 in enumerate(user_ids):                                  *)
(*       for user2 in user_ids[i+1:]:                                      *)
(* (a, b) are the 1-based positions of user1 and user2 in user_ids.        *)
(***************************************************************************)
FirstPair == <<1, 2>>

NextPair(n, a, b) == IF b < n THEN <<a, b + 1>> ELSE <<a + 1, a + 2>>

InLoop(n, a, b) == a < b /\ b <= n

RECURSIVE EdgeLoop(_, _, _, _, _)
EdgeLoop(ids, liked, threshold, a, b) ==
  IF ~InLoop(Len(ids), a, b) THEN << >>
  ELSE LET user1 == ids[a]
           user2 == ids[b]
           sim == calculate_jaccard_similarity(liked[user1], liked[user2])
           nxt == NextPair(Len(ids), a, b)
           rest == EdgeLoop(ids, liked, threshold, nxt[1], nxt[2])
       IN IF Accepted(sim, threshold) THEN <<<<user1, user2, sim>>>> \o rest ELSE rest

(***************************************************************************)
(* The edges visualize_user_similarity_graph adds to G, lines 130-140.     *)
(***************************************************************************)
similarity_graph_edges(ids, liked, threshold) ==
  EdgeLoop(ids, liked, threshold, FirstPair[1], FirstPair[2])

(***************************************************************************)
(* visualize_taste_communities, lines 264-317.                             *)
(***************************************************************************)
Range(s) == { s[k] : k \in DOMAIN s }

\* The key lists tried.  The code never compares two user ids, it only
\* walks user_ids, so a run is determined, up to the names of the users, by
\* the liked sets in insertion order; the users 1..n are inserted in
\* ascending and in descending order of their ids.
KeyLists ==
  UNION { { [k \in 1..n |-> k], [k \in 1..n |-> n + 1 - k] } : n \in 0..Cardinality(Users) }

NoOp == [op |-> "None", x |-> 0, y |-> 0, ret |-> 0, err |-> "None", again |-> FALSE]

\* The position after the registration loop, the edge loop and the grouping
\* loop: a loop over nothing is passed without a step.
GroupStart(n) == IF n >= 1 THEN "group" ELSE "done"

EdgeStart(n) == IF n >= 2 THEN "edges" ELSE GroupStart(n)

RegisterStart(n) == IF n >= 1 THEN "register" ELSE "done"

\* Lines 291-299: G and uf are fresh, user_liked holds the liked songs of
\* every user with at least one liked row, user_ids its keys in insertion order.
Init ==
  /\ user_ids \in KeyLists
  /\ user_liked \in [Range(user_ids) -> (SUBSET Songs) \ {{}}]
  /\ min_similarity \in Thresholds
  /\ pc = RegisterStart(Len(user_ids))
  /\ i = 1
  /\ j = 2
  /\ parent = Empty
  /\ G_nodes = {}
  /\ G_edges = << >>
  /\ communities = Empty
  /\ lastOp = NoOp
  /\ prev = Empty
  /\ grouped = FALSE
  /\ set1 = {}
  /\ set2 = {}
  /\ similarity = NoResult

\* Lines 301-303: one iteration of the registration loop.
Register ==
  /\ pc = "register"
  /\ LET user == user_ids[i] IN
       /\ parent' = make_set(parent, user)
       /\ G_nodes' = G_nodes \cup {user}
  /\ IF i < Len(user_ids)
     THEN /\ i' = i + 1
          /\ pc' = "register"
     ELSE /\ i' = 1
          /\ pc' = EdgeStart(Len(user_ids))
  /\ UNCHANGED <<user_liked, user_ids, min_similarity, j, G_edges, communities>>
  /\ UNCHANGED ufVars
  /\ UNCHANGED jacVars

\* Lines 306-311: one iteration of the inner loop of the edge loop.
ScorePair ==
  /\ pc = "edges"
  /\ LET user1 == user_ids[i]
         user2 == user_ids[j]
         sim == calculate_jaccard_similarity(user_liked[user1], user_liked[user2])
         u == union(parent, user1, user2)
         nxt == NextPair(Len(user_ids), i, j)
         more == InLoop(Len(user_ids), nxt[1], nxt[2])
         raised == Accepted(sim, min_similarity) /\ u.err # "None"
     IN /\ IF Accepted(sim, min_similarity)
           THEN /\ G_edges' = Append(G_edges, <<user1, user2, sim>>)
                /\ parent' = u.parent
           ELSE UNCHANGED <<G_edges, parent>>
        /\ pc' = IF raised THEN "raised"
                 ELSE IF more THEN "edges" ELSE GroupStart(Len(user_ids))
        /\ i' = IF raised THEN i ELSE IF more THEN nxt[1] ELSE 1
        /\ j' = IF raised THEN j ELSE IF more THEN nxt[2] ELSE j
  /\ UNCHANGED <<user_liked, user_ids, min_similarity, G_nodes, communities>>
  /\ UNCHANGED ufVars
  /\ UNCHANGED jacVars

\* Mutant: "communities[root] = [user]", the list replaced, not extended.
AppendMember_overwrite(c, root, user) ==
  IF root \in DOMAIN c
  THEN [c EXCEPT ![root] = <<user>>]
  ELSE c @@ (root :> <<user>>)

\* communities[root].append(user) on a defaultdict(list), line 317.
AppendMember(c, root, user) ==
  IF root \in DOMAIN c
  THEN [c EXCEPT ![root] = Append(c[root], user)]
  ELSE c @@ (root :> <<user>>)

\* Lines 315-317: one iteration of the grouping loop.
Group ==
  /\ pc = "group"
  /\ LET user == user_ids[i]
         f == find(parent, user)
     IN /\ parent' = f.parent
        /\ IF f.err # "None"
           THEN /\ pc' = "raised"
                /\ UNCHANGED <<i, communities>>
           ELSE /\ communities' = AppendMember(communities, f.ret, user)
                /\ IF i < Len(user_ids)
                   THEN /\ i' = i + 1
                        /\ pc' = "group"
                   ELSE /\ i' = i
                        /\ pc' = "done"
  /\ UNCHANGED <<user_liked, user_ids, min_similarity, j, G_nodes, G_edges>>
  /\ UNCHANGED ufVars
  /\ UNCHANGED jacVars

Next == Register \/ ScorePair \/ Group

Spec == Init /\ [][Next]_vars

(***************************************************************************)
(* A UnionFind object (lines 272-289) under the calls of an arbitrary      *)
(* client: make_set, find and union with any arguments, registered or not, *)
(* and the grouping loop of lines 313-317, which calls find on every       *)
(* registered entity.                                                      *)
(***************************************************************************)
\* Whether a call repeats the call before it: the same method on the same
\* arguments (for union, the same undirected edge), which did not raise.
Repeats(op, x, y) ==
  lastOp.op = op /\ {lastOp.x, lastOp.y} = {x, y} /\ lastOp.err = "None"

InitUF ==
  /\ parent = Empty
  /\ lastOp = NoOp
  /\ prev = Empty
  /\ grouped = FALSE
  /\ user_ids = << >>
  /\ user_liked = Empty
  /\ min_similarity = Zero
  /\ pc = "client"
  /\ i = 1
  /\ j = 2
  /\ G_nodes = {}
  /\ G_edges = << >>
  /\ communities = Empty
  /\ set1 = {}
  /\ set2 = {}
  /\ similarity = NoResult

CallMakeSet ==
  \E x \in Entities :
    /\ prev' = parent
    /\ parent' = make_set(parent, x)
    /\ lastOp' = [op |-> "make_set", x |-> x, y |-> 0, ret |-> 0, err |-> "None",
                  again |-> Repeats("make_set", x, 0)]
    /\ UNCHANGED grouped
    /\ UNCHANGED pipeVars
    /\ UNCHANGED jacVars

CallFind ==
  \E x \in Entities :
    LET f == find(parent, x) IN
    /\ prev' = parent
    /\ parent' = f.parent
    /\ lastOp' = [op |-> "find", x |-> x, y |-> 0, ret |-> f.ret, err |-> f.err,
                  again |-> Repeats("find", x, 0)]
    /\ UNCHANGED grouped
    /\ UNCHANGED pipeVars
    /\ UNCHANGED jacVars

CallUnion ==
  \E x, y \in Entities :
    LET u == union(parent, x, y) IN
    /\ prev' = parent
    /\ parent' = u.parent
    /\ lastOp' = [op |-> "union", x |-> x, y |-> y, ret |-> 0, err |-> u.err,
                  again |-> Repeats("union", x, y)]
    /\ UNCHANGED grouped
    /\ UNCHANGED pipeVars
    /\ UNCHANGED jacVars

\* find called on each entity of the sequence s in turn (lines 315-316).
RECURSIVE FindEach(_, _)
FindEach(p, s) ==
  IF s = << >> THEN p ELSE FindEach(find(p, Head(s)).parent, Tail(s))

\* The elements of a finite set of integers in ascending order.
RECURSIVE Ascending(_)
Ascending(S) ==
  IF S = {} THEN << >>
  ELSE LET m == CHOOSE a \in S : \A b \in S : a <= b IN <<m>> \o Ascending(S \ {m})

CallGroup ==
  /\ prev' = parent
  /\ parent' = FindEach(parent, Ascending(DOMAIN parent))
  /\ lastOp' = [op |-> "group", x |-> 0, y |-> 0, ret |-> 0, err |-> "None",
                again |-> Repeats("group", 0, 0)]
  /\ grouped' = TRUE
  /\ UNCHANGED pipeVars
  /\ UNCHANGED jacVars

NextUF == CallMakeSet \/ CallFind \/ CallUnion \/ CallGroup

SpecUF == InitUF /\ [][NextUF]_vars

(***************************************************************************)
(* calculate_jaccard_similarity (lines 108-114) called on any two sets.    *)
(***************************************************************************)
InitJaccard ==
  /\ set1 \in SUBSET Items
  /\ set2 \in SUBSET Items
  /\ similarity = NoResult
  /\ parent = Empty
  /\ lastOp = NoOp
  /\ prev = Empty
  /\ grouped = FALSE
  /\ user_ids = << >>
  /\ user_liked = Empty
  /\ min_similarity = Zero
  /\ pc = "call"
  /\ i = 1
  /\ j = 2
  /\ G_nodes = {}
  /\ G_edges = << >>
  /\ communities = Empty

CallJaccard ==
  /\ similarity = NoResult
  /\ similarity' = calculate_jaccard_similarity(set1, set2)
  /\ UNCHANGED <<set1, set2, parent>>
  /\ UNCHANGED pipeVars
  /\ UNCHANGED ufVars

NextJaccard == CallJaccard

SpecJaccard == InitJaccard /\ [][NextJaccard]_vars

(***************************************************************************)
(* Notions the properties are stated with, none of them used by the model  *)
(* of the code above.                                                      *)
(***************************************************************************)
\* The root x resolves to by repeated parent lookup, 0 when a lookup
\* leaves the registered entities or no root is met within |p| lookups.
RECURSIVE Chase(_, _, _)
Chase(p, x, fuel) ==
  IF x \notin DOMAIN p THEN 0
  ELSE IF p[x] = x THEN x
  ELSE IF fuel = 0 THEN 0
  ELSE Chase(p, p[x], fuel - 1)

Root(p, x) == Chase(p, x, Cardinality(DOMAIN p))

\* The entities on the parent chain from x to its root, both included.
RECURSIVE ChainFrom(_, _, _)
ChainFrom(p, x, fuel) ==
  IF x \notin DOMAIN p \/ p[x] = x \/ fuel = 0 THEN {x}
  ELSE {x} \cup ChainFrom(p, p[x], fuel - 1)

Chain(p, x) == ChainFrom(p, x, Cardinality(DOMAIN p))

SameRoots(p, q) ==
  /\ DOMAIN p = DOMAIN q
  /\ \A e \in DOMAIN p : Root(p, e) = Root(q, e)

\* The entities joined to those of S by a path of the undirected pairs E.
RECURSIVE Reach(_, _)
Reach(S, E) ==
  LET T == S \cup { e[2] : e \in { d \in E : d[1] \in S } }
             \cup { e[1] : e \in { d \in E : d[2] \in S } }
  IN IF T = S THEN S ELSE Reach(T, E)

Registered == DOMAIN parent

\* |A n B| / |A u B| >= threshold, by cross-multiplication.
SimGeq(a, b, threshold) ==
  Cardinality(user_liked[a] \cap user_liked[b]) * threshold[2]
    >= threshold[1] * Cardinality(user_liked[a] \cup user_liked[b])

\* The pairs of distinct users whose similarity meets the threshold.
AcceptedPairs ==
  { d \in Range(user_ids) \X Range(user_ids) :
      d[1] # d[2] /\ SimGeq(d[1], d[2], min_similarity) }

EmittedPairs == { <<G_edges[k][1], G_edges[k][2]>> : k \in DOMAIN G_edges }

EdgeLoopOver == pc \in {"group", "done"}

OutOfRange(t) == t[1] < 0 \/ t[1] > t[2]

Pos(u) == CHOOSE k \in DOMAIN user_ids : user_ids[k] = u

(***************************************************************************)
(* C1.  After every entity has been registered, and after any number of    *)
(* the unions of the edge loop, two registered entities have the same root *)
(* if and only if a path of the edges accepted so far joins them; once the *)
(* loop is over, if and only if a path of pairs with similarity >=         *)
(* threshold joins them.                                                   *)
(***************************************************************************)
C1_Connectivity ==
  /\ pc \in {"edges", "group", "done"} =>
       LET emitted == EmittedPairs IN
       \A a \in Registered :
         LET joined == Reach({a}, emitted) IN
         \A b \in Registered : (Root(parent, a) = Root(parent, b)) <=> (b \in joined)
  /\ EdgeLoopOver =>
       /\ Registered = Range(user_ids)
       /\ LET accepted == AcceptedPairs IN
          \A a \in Registered :
            LET joined == Reach({a}, accepted) IN
            \A b \in Registered : (Root(parent, a) = Root(parent, b)) <=> (b \in joined)

\* A-B and B-C accepted, A-C below the threshold, A and C in one community.
C1_Witness ==
  /\ pc = "done"
  /\ \E a, b, c \in Registered :
       /\ <<a, b>> \in AcceptedPairs
       /\ <<b, c>> \in AcceptedPairs
       /\ a # c
       /\ <<a, c>> \notin AcceptedPairs
       /\ Root(parent, a) = Root(parent, c)

(***************************************************************************)
(* C2.  The grouping of lines 313-317 is a partition of the registered     *)
(* entities: the groups are pairwise disjoint, together they are the       *)
(* registered entities, each entity is listed once, under its root, and an *)
(* entity with no accepted edge is alone in its group.                     *)
(***************************************************************************)
C2_Partition ==
  pc = "done" =>
    /\ UNION { Range(communities[r]) : r \in DOMAIN communities } = Registered
    /\ \A r, q \in DOMAIN communities :
         r # q => Range(communities[r]) \cap Range(communities[q]) = {}
    /\ \A r \in DOMAIN communities :
         /\ communities[r] # << >>
         /\ Cardinality(Range(communities[r])) = Len(communities[r])
         /\ \A u \in Range(communities[r]) : Root(parent, u) = r
    /\ \A u \in Registered :
         Cardinality({ r \in DOMAIN communities : u \in Range(communities[r]) }) = 1
    /\ LET accepted == AcceptedPairs IN
       \A u \in Registered :
         (\A d \in accepted : d[1] # u) =>
           \E r \in DOMAIN communities : communities[r] = <<u>>

\* Two communities, one of two members and one of a user without any edge.
C2_Witness ==
  /\ pc = "done"
  /\ Cardinality(DOMAIN communities) = 2
  /\ \E r \in DOMAIN communities : Len(communities[r]) = 2
  /\ \E u \in Registered :
       /\ \A d \in AcceptedPairs : d[1] # u
       /\ \E r \in DOMAIN communities : communities[r] = <<u>>

(***************************************************************************)
(* C5.  The edge loop emits, for every unordered pair of distinct users,   *)
(* one edge when their similarity is >= threshold and none when it is      *)
(* below; never a pair in both directions, never a self-edge; each edge    *)
(* has its first user before its second in user_ids, and the edges come in *)
(* the order of enumeration.  Both edge loops (lines 135-140 and 306-311)  *)
(* are covered.                                                            *)
(***************************************************************************)
EdgesAsSpecified(E) ==
  /\ \A a, b \in Range(user_ids) :
       Cardinality({ k \in DOMAIN E : {E[k][1], E[k][2]} = {a, b} })
         = IF a # b /\ SimGeq(a, b, min_similarity) THEN 1 ELSE 0
  /\ \A k \in DOMAIN E :
       /\ E[k][1] \in Range(user_ids)
       /\ E[k][2] \in Range(user_ids)
       /\ E[k][1] # E[k][2]
       /\ Pos(E[k][1]) < Pos(E[k][2])
       /\ E[k][3] = calculate_jaccard_similarity(user_liked[E[k][1]], user_liked[E[k][2]])
  /\ \A k, l \in DOMAIN E :
       k < l => \/ Pos(E[k][1]) < Pos(E[l][1])
                \/ Pos(E[k][1]) = Pos(E[l][1]) /\ Pos(E[k][2]) < Pos(E[l][2])

C5_Edges ==
  pc = "done" =>
    /\ EdgesAsSpecified(G_edges)
    /\ EdgesAsSpecified(similarity_graph_edges(user_ids, user_liked, min_similarity))

\* An accepted and a dropped pair, the accepted one exactly at the
\* threshold, with the later-numbered user first in user_ids.
C5_Witness ==
  /\ pc = "done"
  /\ Len(G_edges) >= 1
  /\ Len(G_edges) < (Len(user_ids) * (Len(user_ids) - 1)) \div 2
  /\ \E k \in DOMAIN G_edges :
       /\ G_edges[k][3] = min_similarity
       /\ G_edges[k][1] > G_edges[k][2]

(***************************************************************************)
(* C7.  As claimed: a threshold outside [0, 1] is rejected before any      *)
(* computation: no pair is scored, no edge emitted, no union made.         *)
(***************************************************************************)
PairScored == (pc = "edges" /\ <<i, j>> # FirstPair) \/ (EdgeLoopOver /\ Len(user_ids) >= 2)

C7_Rejected ==
  OutOfRange(min_similarity) =>
    /\ ~PairScored
    /\ G_edges = << >>
    /\ \A u \in Registered : parent[u] = u

(***************************************************************************)
(* C7, as the code has it.  A threshold outside [0, 1] is neither rejected *)
(* nor clamped: the run never raises, and when it is over a threshold      *)
(* below 0 has accepted every pair, so that all users are one community,   *)
(* and a threshold above 1 has accepted none, so that every user is alone. *)
(***************************************************************************)
C7_NotRejected ==
  /\ pc # "raised"
  /\ (pc = "done" /\ min_similarity[1] < 0) =>
       /\ Len(G_edges) = (Len(user_ids) * (Len(user_ids) - 1)) \div 2
       /\ \A a, b \in Registered : Root(parent, a) = Root(parent, b)
  /\ (pc = "done" /\ min_similarity[1] > min_similarity[2]) =>
       /\ G_edges = << >>
       /\ \A u \in Registered : parent[u] = u

\* A finished run with a threshold above 1 and two users of identical liked
\* sets, whose similarity 1.0 a threshold clamped to 1.0 would accept.
C7_Witness ==
  /\ pc = "done"
  /\ min_similarity[1] > min_similarity[2]
  /\ \E a, b \in Registered : a # b /\ user_liked[a] = user_liked[b]
  /\ Cardinality(DOMAIN communities) = Len(user_ids)

(***************************************************************************)
(* C3.  Under any calls of make_set, find and union the parent mapping is  *)
(* a forest: the parent of a registered entity is registered, and repeated *)
(* parent lookup from a registered entity meets a self-parented root       *)
(* within as many lookups as there are entities, so that no cycle exists   *)
(* but the self-loop of a root.                                            *)
(***************************************************************************)
C3_Forest ==
  \A x \in Registered :
    /\ parent[x] \in Registered
    /\ Root(parent, x) \in Registered
    /\ parent[Root(parent, x)] = Root(parent, x)

\* A union has just hung a tree of depth one under another root.
C3_Witness ==
  /\ lastOp.op = "union"
  /\ lastOp.err = "None"
  /\ parent # prev
  /\ \E x \in Registered : parent[x] # x /\ parent[parent[x]] # parent[x]

(***************************************************************************)
(* C4.  As claimed: make_set of a registered entity, and a union repeated  *)
(* on the same edge, leave the parent mapping as it was.                   *)
(***************************************************************************)
C4_SameParent ==
  /\ (lastOp.op = "make_set" /\ lastOp.x \in DOMAIN prev) => parent = prev
  /\ (lastOp.op = "union" /\ lastOp.again) => parent = prev

(***************************************************************************)
(* C4, as the code has it.  make_set of a registered entity leaves the     *)
(* parent mapping as it was.  A union repeated on the same edge, and any   *)
(* union of two entities already in one community, registers nothing and   *)
(* leaves the root of every entity, hence every community, as it was; the  *)
(* parent mapping itself may change, by the path compression of find.      *)
(***************************************************************************)
C4_Idempotent ==
  /\ (lastOp.op = "make_set" /\ lastOp.x \in DOMAIN prev) => parent = prev
  /\ (lastOp.op = "union" /\ lastOp.again) =>
       /\ lastOp.err = "None"
       /\ SameRoots(prev, parent)
  /\ (lastOp.op = "union" /\ lastOp.err = "None"
        /\ Root(prev, lastOp.x) = Root(prev, lastOp.y)) => SameRoots(prev, parent)

\* A repeated union that re-pointed an entry of the parent mapping.
C4_Witness ==
  /\ lastOp.op = "union"
  /\ lastOp.again
  /\ parent # prev

(***************************************************************************)
(* C8.  union(A, B) with A or B not registered raises (a KeyError, from    *)
(* the lookup self.parent[x] of find): nothing is registered by it, no two *)
(* components are merged, and every registered entity keeps its root.      *)
(***************************************************************************)
C8_Unregistered ==
  (lastOp.op = "union" /\ (lastOp.x \notin DOMAIN prev \/ lastOp.y \notin DOMAIN prev)) =>
    /\ lastOp.err = "KeyError"
    /\ SameRoots(prev, parent)

\* union(A, B) with A registered, at the end of a chain that find(A)
\* compressed before find(B) raised.
C8_Witness ==
  /\ lastOp.op = "union"
  /\ lastOp.x \in DOMAIN prev
  /\ lastOp.y \notin DOMAIN prev
  /\ lastOp.err = "KeyError"
  /\ parent # prev
  /\ \E a, b \in DOMAIN prev : a # b /\ prev[a] # a /\ prev[b] # b

(***************************************************************************)
(* C9.  As claimed: once the communities have been grouped the object is   *)
(* read-only: a later make_set or union is rejected with a StateError and  *)
(* leaves the partition as it was.                                         *)
(***************************************************************************)
C9_ReadOnly ==
  (grouped /\ lastOp.op \in {"make_set", "union"}) =>
    /\ lastOp.err = "StateError"
    /\ SameRoots(prev, parent)

(***************************************************************************)
(* C9, as the code has it.  The UnionFind has no final state: after the    *)
(* communities have been grouped make_set and union act as before.  No     *)
(* call raises a StateError; make_set registers an unregistered entity as  *)
(* its own root, and union of two registered entities puts them in one     *)
(* community.                                                              *)
(***************************************************************************)
C9_NoFinalState ==
  /\ lastOp.err \in {"None", "KeyError"}
  /\ (grouped /\ lastOp.op = "make_set") =>
       /\ lastOp.err = "None"
       /\ DOMAIN parent = DOMAIN prev \cup {lastOp.x}
       /\ lastOp.x \notin DOMAIN prev => parent[lastOp.x] = lastOp.x
       /\ \A e \in DOMAIN prev : parent[e] = prev[e]
  /\ (grouped /\ lastOp.op = "union"
        /\ lastOp.x \in DOMAIN prev /\ lastOp.y \in DOMAIN prev) =>
       /\ lastOp.err = "None"
       /\ Root(parent, lastOp.x) = Root(parent, lastOp.y)
       /\ Root(parent, lastOp.y) = Root(prev, lastOp.y)

\* After the grouping, a union has merged two communities.
C9_Witness ==
  /\ grouped
  /\ lastOp.op = "union"
  /\ lastOp.err = "None"
  /\ Root(prev, lastOp.x) # Root(prev, lastOp.y)
  /\ Root(parent, lastOp.x) = Root(parent, lastOp.y)

(***************************************************************************)
(* C10.  find(x) of a registered x returns the root x resolved to before   *)
(* the call; on return every entity of the parent chain from x to that     *)
(* root has the root as its parent; no other parent entry has changed, no  *)
(* entity has been registered, and every entity resolves to the root it    *)
(* resolved to before.                                                     *)
(***************************************************************************)
C10_Find ==
  (lastOp.op = "find" /\ lastOp.x \in DOMAIN prev) =>
    /\ lastOp.err = "None"
    /\ lastOp.ret = Root(prev, lastOp.x)
    /\ \A e \in Chain(prev, lastOp.x) : parent[e] = lastOp.ret
    /\ DOMAIN parent = DOMAIN prev
    /\ \A e \in DOMAIN prev \ Chain(prev, lastOp.x) : parent[e] = prev[e]
    /\ SameRoots(prev, parent)

\* A find from the end of a chain of three, in a forest with a second tree.
C10_Witness ==
  /\ lastOp.op = "find"
  /\ lastOp.x \in DOMAIN prev
  /\ Cardinality(Chain(prev, lastOp.x)) >= 3
  /\ parent # prev
  /\ \E e \in DOMAIN prev \ Chain(prev, lastOp.x) : prev[e] # e

(***************************************************************************)
(* C6.  calculate_jaccard_similarity(S1, S2) is |S1 n S2| / |S1 u S2|      *)
(* (0 when both are empty), lies in [0, 1], is the same for (S2, S1), is 1 *)
(* exactly when S1 = S2 # {} and 0 exactly when S1 and S2 are disjoint.    *)
(***************************************************************************)
C6_Jaccard ==
  similarity # NoResult =>
    /\ similarity[2] > 0
    /\ similarity[1] * Cardinality(set1 \cup set2)
         = Cardinality(set1 \cap set2) * similarity[2]
    /\ (set1 \cup set2 = {}) => similarity = Zero
    /\ 0 <= similarity[1] /\ similarity[1] <= similarity[2]
    /\ similarity = calculate_jaccard_similarity(set2, set1)
    /\ (similarity = One) <=> (set1 = set2 /\ set1 # {})
    /\ (similarity = Zero) <=> (set1 \cap set2 = {})

\* The call on two empty sets has returned 0.
C6_Witness ==
  /\ similarity = Zero
  /\ set1 = {}
  /\ set2 = {}

====
